---- MODULE Spec2Model ----
(***************************************************************************)
(* Playback sequencer of the "Nightfall Descent" page (src/app/page.tsx).  *)
(*                                                                         *)
(* The component keeps four pieces of React state (phase, runKey,          *)
(* activeIndex, elapsed).  One effect, keyed on [phase, runKey], schedules *)
(* a reveal timeout per non-first segment and a requestAnimationFrame loop *)
(* while phase = "running"; its cleanup clears them.  The host supplies a  *)
(* clock (now), a timeout table (timeouts) and a frame-callback table      *)
(* (frames).  Time is in milliseconds.                                     *)
(*                                                                         *)
(* Scheduling of the effect: a click is a discrete event, so React renders *)
(* and flushes the effect (cleanup of the old instance, setup of the new   *)
(* one) inside the click; a state update made from a frame callback is     *)
(* rendered asynchronously and its effect flush is a later step of its own *)
(* (FlushEffects).                                                         *)
(*                                                                         *)
(* Host: a timeout runs no earlier than its due time, with no upper bound  *)
(* on its lateness, and timeouts run in due order.  A frame callback       *)
(* receives the timestamp of its frame, which may precede the instant the  *)
(* callback runs (and so the performance.now() read by an effect that ran  *)
(* earlier in the same frame) by up to MaxFrameLag; frame timestamps       *)
(* increase.  Nothing orders timeouts against frame callbacks.             *)
(***************************************************************************)
EXTENDS Integers, Sequences, FiniteSets, TLC

VARIABLES phase, runKey, activeIndex, elapsed,
          now, frameTime, start, timeouts, frames, effectDeps, mounted

vars == <<phase, runKey, activeIndex, elapsed,
          now, frameTime, start, timeouts, frames, effectDeps, mounted>>

(* ------------------------------ bounds --------------------------------- *)

\* number of runs (start / replay) explored
MaxRuns == 2

\* performance.now() when the component mounts
MountTime == 1

\* how long after the earliest possible instant a run may still begin
Slack == 2500

\* by how much a frame's timestamp may precede the instant its callback runs
MaxFrameLag == 1

\* the clock is observed every Grid milliseconds after the run's start, and
\* one millisecond before
Grid == 2500

(* --------------------------- script model ------------------------------ *)

\* storySegments with the fourth offset mistyped
storySegmentsMistyped ==
  << [id |-> "sealed",     label |-> "00:00", delayMs |-> 0],
     [id |-> "countdown",  label |-> "00:05", delayMs |-> 5000],
     [id |-> "warning",    label |-> "00:10", delayMs |-> 10000],
     [id |-> "reflection", label |-> "00:15", delayMs |-> 1500],
     [id |-> "arrival",    label |-> "00:20", delayMs |-> 20000] >>

storySegments ==
  << [id |-> "sealed",     label |-> "00:00", delayMs |-> 0],
     [id |-> "countdown",  label |-> "00:05", delayMs |-> 5000],
     [id |-> "warning",    label |-> "00:10", delayMs |-> 10000],
     [id |-> "reflection", label |-> "00:15", delayMs |-> 15000],
     [id |-> "arrival",    label |-> "00:20", delayMs |-> 20000] >>

\* storySegments.length
NumSegments == Len(storySegments)

\* index of the last segment, zero-based as in the source
LastIndex == NumSegments - 1

\* storySegments[i].delayMs for a zero-based index i
delayMs(i) == storySegments[i + 1].delayMs

totalDuration == storySegments[Len(storySegments)].delayMs

Min(a, b) == IF a <= b THEN a ELSE b

Max(a, b) == IF a >= b THEN a ELSE b

(* ----------------------------- formatting ------------------------------ *)

Digit == << "0", "1", "2", "3", "4", "5", "6", "7", "8", "9" >>

\* Number.prototype.toString for a non-negative integer
RECURSIVE toString(_)
toString(n) ==
  IF n < 10 THEN Digit[n + 1] ELSE toString(n \div 10) \o Digit[(n % 10) + 1]

\* String.prototype.padStart(width, "0")
RECURSIVE padStart(_, _)
padStart(s, width) == IF Len(s) >= width THEN s ELSE padStart("0" \o s, width)

\* ceilSeconds rounding down instead of up
floorSeconds(ms) == ms \div 1000

\* Math.ceil(ms / 1000) for ms >= 0
ceilSeconds(ms) == IF ms % 1000 = 0 THEN ms \div 1000 ELSE (ms \div 1000) + 1

formatSeconds(ms) == "00:" \o padStart(toString(ceilSeconds(Max(ms, 0))), 2)

(* --------------------------- derived values ---------------------------- *)

\* progress as a fraction num/den with den > 0
progress ==
  IF phase = "idle" THEN [num |-> 0, den |-> 1]
  ELSE IF elapsed <= totalDuration
       THEN [num |-> elapsed, den |-> totalDuration]
       ELSE [num |-> 1, den |-> 1]

remainingLabel ==
  IF phase = "finished" THEN "00:00" ELSE formatSeconds(totalDuration - elapsed)

\* revealedSegments with slice(0, activeIndex)
revealedSegmentsShort ==
  IF activeIndex < 0 THEN << >> ELSE SubSeq(storySegments, 1, activeIndex)

revealedSegments ==
  IF activeIndex < 0 THEN << >> ELSE SubSeq(storySegments, 1, activeIndex + 1)

\* isActive, for a zero-based index into revealedSegments
isActive(index) == index = activeIndex /\ phase # "finished"

\* isFinal, for a zero-based index into revealedSegments
isFinal(index) ==
  revealedSegments[index + 1].id = storySegments[Len(storySegments)].id

\* the marker rendered next to a revealed segment
marker(index) ==
  IF isActive(index) THEN "Now"
  ELSE IF isFinal(index) /\ phase = "finished" THEN "Arrival"
  ELSE "Echo"

\* revealedSegments.map: the markers of the rendered list, in order
markers == [ k \in 1..Len(revealedSegments) |-> marker(k - 1) ]

(* ------------------------------- effect -------------------------------- *)

\* revealTimeouts passing the index of the sliced array to setActiveIndex
revealTimeoutsSliceIndex(r, t) ==
  { [run |-> r, index |-> i - 1, due |-> t + storySegments[i + 1].delayMs] :
      i \in 1..(Len(storySegments) - 1) }

\* the reveal timeouts one effect instance registers, for run r at instant t
revealTimeouts(r, t) ==
  { [run |-> r, index |-> i, due |-> t + delayMs(i)] : i \in 1..LastIndex }

\* a cleanup that leaves the frame request in place
cleanupFramesKept(r) == frames

\* a cleanup that leaves the timeouts in place
cleanupTimeoutsKept(r) == timeouts

\* the effect's cleanup, for the instance created by run r
cleanupTimeouts(r) == { tm \in timeouts : tm.run # r }

cleanupFrames(r) == { f \in frames : f.run # r }

\* the run whose effect instance is live
liveRun == effectDeps[2]

(* ------------------------------- state --------------------------------- *)

Init ==
  /\ phase = "idle"
  /\ runKey = 0
  /\ activeIndex = -1
  /\ elapsed = 0
  /\ now = MountTime
  /\ frameTime = -1
  /\ start = 0
  /\ timeouts = {}
  /\ frames = {}
  /\ effectDeps = <<"idle", 0>>
  /\ mounted = TRUE

\* the latest instant at which run k + 1 may begin
StartBy(k) == MountTime + k * totalDuration + Slack

\* the host clock stops advancing here: the last run has room to complete
MaxNow == StartBy(MaxRuns - 1) + totalDuration

\* room left on the bounded clock and run counter for one more complete run
CanRun == runKey < MaxRuns /\ now <= StartBy(runKey)

\* handleStart, with the render and effect flush the click brings with it
handleStart ==
  /\ mounted
  /\ CanRun
  /\ activeIndex' = 0
  /\ elapsed' = 0
  /\ phase' = "running"
  /\ runKey' = runKey + 1
  /\ timeouts' = cleanupTimeouts(liveRun) \cup revealTimeouts(runKey + 1, now)
  /\ start' = now
  /\ frames' = cleanupFrames(liveRun) \cup { [run |-> runKey + 1, start |-> now] }
  /\ effectDeps' = <<"running", runKey + 1>>
  /\ UNCHANGED <<now, frameTime, mounted>>

\* handleReplay without setElapsed(0)
handleReplayKeepsElapsed ==
  /\ mounted
  /\ CanRun
  /\ activeIndex' = 0
  /\ phase' = "running"
  /\ runKey' = runKey + 1
  /\ timeouts' = cleanupTimeouts(liveRun) \cup revealTimeouts(runKey + 1, now)
  /\ start' = now
  /\ frames' = cleanupFrames(liveRun) \cup { [run |-> runKey + 1, start |-> now] }
  /\ effectDeps' = <<"running", runKey + 1>>
  /\ UNCHANGED <<elapsed, now, frameTime, mounted>>

\* handleReplay, with the render and effect flush the click brings with it
handleReplay ==
  /\ mounted
  /\ CanRun
  /\ activeIndex' = 0
  /\ elapsed' = 0
  /\ phase' = "running"
  /\ runKey' = runKey + 1
  /\ timeouts' = cleanupTimeouts(liveRun) \cup revealTimeouts(runKey + 1, now)
  /\ start' = now
  /\ frames' = cleanupFrames(liveRun) \cup { [run |-> runKey + 1, start |-> now] }
  /\ effectDeps' = <<"running", runKey + 1>>
  /\ UNCHANGED <<now, frameTime, mounted>>

\* a "Begin Descent" button that is hidden in finished only
StartOfferedUnlessFinished == phase # "finished"

\* the "Begin Descent" button is rendered in idle only
StartOffered == phase = "idle"

\* the "Replay Descent" button is rendered in finished only
ReplayOffered == phase = "finished"

ClickStart == StartOffered /\ handleStart

ClickReplay == ReplayOffered /\ handleReplay

\* the next instant at which the clock is observed
NextInstant(t) ==
  LET r == (t - start) % Grid
  IN IF r = Grid - 1 THEN t + 1 ELSE t + (Grid - 1 - r)

\* the host clock advances
Tick ==
  /\ NextInstant(now) <= MaxNow
  /\ now' = NextInstant(now)
  /\ UNCHANGED <<phase, runKey, activeIndex, elapsed, frameTime, start,
                 timeouts, frames, effectDeps, mounted>>

\* a timeout runs once it is due and no timeout due before it is pending
Ready(tm) ==
  /\ tm \in timeouts
  /\ tm.due <= now
  /\ \A o \in timeouts : o.due >= tm.due

\* the callback of a reveal timeout: setActiveIndex(index + 1)
RevealFire ==
  /\ mounted
  /\ \E tm \in timeouts :
       /\ Ready(tm)
       /\ activeIndex' = tm.index
       /\ timeouts' = timeouts \ {tm}
  /\ UNCHANGED <<phase, runKey, elapsed, now, frameTime, start, frames,
                 effectDeps, mounted>>

\* nextElapsed without the clamp
nextElapsedUnclamped(time, s) == time - s

\* Math.min(time - start, totalDuration)
nextElapsed(time, s) == Min(time - s, totalDuration)

\* LoopContinues with <= for <
LoopContinuesAtEnd(e) == e <= totalDuration

\* the loop requests another frame
LoopContinues(e) == e < totalDuration

\* loop(time) revealing the last segment itself when it finishes
LoopFireRevealsLast ==
  /\ mounted
  /\ \E f \in frames, lag \in 0..MaxFrameLag :
       LET time == now - lag
           e == nextElapsed(time, f.start)
       IN /\ time >= 0
          /\ time > frameTime
          /\ frameTime' = time
          /\ elapsed' = e
          /\ IF LoopContinues(e)
             THEN /\ frames' = frames
                  /\ phase' = phase
                  /\ activeIndex' = activeIndex
             ELSE /\ frames' = frames \ {f}
                  /\ phase' = "finished"
                  /\ activeIndex' = LastIndex
  /\ UNCHANGED <<runKey, now, start, timeouts, effectDeps, mounted>>

\* loop(time) going back to idle when it finishes
LoopFireBackToIdle ==
  /\ mounted
  /\ \E f \in frames, lag \in 0..MaxFrameLag :
       LET time == now - lag
           e == nextElapsed(time, f.start)
       IN /\ time >= 0
          /\ time > frameTime
          /\ frameTime' = time
          /\ elapsed' = e
          /\ IF LoopContinues(e)
             THEN /\ frames' = frames
                  /\ phase' = phase
             ELSE /\ frames' = frames \ {f}
                  /\ phase' = "idle"
  /\ UNCHANGED <<runKey, activeIndex, now, start, timeouts, effectDeps, mounted>>

\* the frame callback: loop(time)
LoopFire ==
  /\ mounted
  /\ \E f \in frames, lag \in 0..MaxFrameLag :
       LET time == now - lag
           e == nextElapsed(time, f.start)
       IN /\ time >= 0
          /\ time > frameTime
          /\ frameTime' = time
          /\ elapsed' = e
          /\ IF LoopContinues(e)
             THEN /\ frames' = frames
                  /\ phase' = phase
             ELSE /\ frames' = frames \ {f}
                  /\ phase' = "finished"
  /\ UNCHANGED <<runKey, activeIndex, now, start, timeouts, effectDeps, mounted>>

\* React flushes the effect after a render that changed [phase, runKey]:
\* cleanup of the previous instance, then the effect body
FlushEffects ==
  /\ mounted
  /\ effectDeps # <<phase, runKey>>
  /\ effectDeps' = <<phase, runKey>>
  /\ IF phase # "running"
     THEN /\ timeouts' = cleanupTimeouts(liveRun)
          /\ frames' = cleanupFrames(liveRun)
          /\ start' = start
     ELSE /\ timeouts' = cleanupTimeouts(liveRun) \cup revealTimeouts(runKey, now)
          /\ frames' = cleanupFrames(liveRun) \cup { [run |-> runKey, start |-> now] }
          /\ start' = now
  /\ UNCHANGED <<phase, runKey, activeIndex, elapsed, now, frameTime, mounted>>

\* the component is torn down: the effect's cleanup runs
Unmount ==
  /\ mounted
  /\ mounted' = FALSE
  /\ timeouts' = cleanupTimeouts(liveRun)
  /\ frames' = cleanupFrames(liveRun)
  /\ UNCHANGED <<phase, runKey, activeIndex, elapsed, now, frameTime, start,
                 effectDeps>>

\* the page as rendered: the handlers are reached through the buttons
Next ==
  \/ ClickStart
  \/ ClickReplay
  \/ Tick
  \/ RevealFire
  \/ LoopFire
  \/ FlushEffects
  \/ Unmount

Spec == Init /\ [][Next]_vars

\* the handlers themselves, which carry no phase guard (lines 105-117)
HandlerNext ==
  \/ handleStart
  \/ handleReplay
  \/ Tick
  \/ RevealFire
  \/ LoopFire
  \/ FlushEffects

HandlerSpec == Init /\ [][HandlerNext]_vars

\* the handlers without phase guard, and the teardown
LifecycleNext ==
  \/ handleStart
  \/ handleReplay
  \/ Tick
  \/ RevealFire
  \/ LoopFire
  \/ FlushEffects
  \/ Unmount

LifecycleSpec == Init /\ [][LifecycleNext]_vars

\* one run left undisturbed: no replay, no teardown
RunNext ==
  \/ ClickStart
  \/ Tick
  \/ RevealFire
  \/ LoopFire
  \/ FlushEffects

\* the clock advances and the host keeps delivering the requested frame
LiveSpec == Init /\ [][RunNext]_vars /\ WF_vars(Tick) /\ WF_vars(LoopFire)

\* a run begun at MountTime, seen at any millisecond up to its end before any
\* callback has run
LabelInit ==
  \E t \in 0..(totalDuration + MaxFrameLag) :
    /\ phase = "running"
    /\ runKey = 1
    /\ activeIndex = 0
    /\ elapsed = 0
    /\ now = MountTime + t
    /\ frameTime = -1
    /\ start = MountTime
    /\ timeouts = revealTimeouts(1, MountTime)
    /\ frames = { [run |-> 1, start |-> MountTime] }
    /\ effectDeps = <<"running", 1>>
    /\ mounted = TRUE

LabelNext ==
  \/ LoopFire
  \/ FlushEffects

\* the frame callback sampled at every millisecond of a run
LabelSpec == LabelInit /\ [][LabelNext]_vars

TypeOK ==
  /\ phase \in {"idle", "running", "finished"}
  /\ runKey \in 0..MaxRuns
  /\ activeIndex \in -1..LastIndex
  /\ elapsed \in -MaxFrameLag..totalDuration
  /\ now \in 0..MaxNow
  /\ mounted \in BOOLEAN

(* ------------------------------- claims -------------------------------- *)

\* the greatest zero-based index whose reveal offset is at most t (-1 if none)
GreatestIndex(t) ==
  LET S == { i \in 0..LastIndex : delayMs(i) <= t }
  IN IF S = {} THEN -1 ELSE CHOOSE i \in S : \A j \in S : j <= i

\* no reveal timeout that is due is still pending
NoDueTimeout == \A tm \in timeouts : tm.due > now

\* C1: in every reachable state, phase = finished implies that activeIndex
\* is the index of the last segment.
C1_FinishedAtLastSegment == phase = "finished" => activeIndex = LastIndex

\* the state a single fresh start leaves: first segment active, nothing
\* elapsed, one set of reveal timeouts and one frame request, all of this run
FreshStart ==
  /\ activeIndex = 0
  /\ elapsed = 0
  /\ phase = "running"
  /\ start = now
  /\ Cardinality(timeouts) = LastIndex
  /\ \A tm \in timeouts : tm.run = runKey /\ tm.due = now + delayMs(tm.index)
  /\ frames = { [run |-> runKey, start |-> now] }

\* C3: a replay() that immediately follows a start() leaves the state of a
\* single fresh start (first segment active, nothing elapsed, running, exactly
\* one set of pending reveal timeouts and one frame request), and activeIndex
\* never exceeds the greatest index whose offset is at most the time since
\* the latest (re)start.
C3_RestartIsFreshStart ==
  /\ [][(FreshStart /\ runKey' # runKey) => FreshStart']_vars
  /\ [](activeIndex <= GreatestIndex(now - start))

\* a replay at the very instant of the start, whose run then revealed the
\* second segment
C3_Witness ==
  /\ runKey = 2
  /\ start = MountTime
  /\ activeIndex = 1
  /\ now - start >= delayMs(1)

\* C4: once a run has started, with the clock advancing and frames being
\* delivered and no replay, phase eventually becomes finished, and in
\* finished no frame callback remains pending.
C4_RunFinishes ==
  /\ (phase = "running") ~> (phase = "finished")
  /\ [](phase = "finished" => frames = {})

\* the run has finished and nothing is requested from the frame scheduler
C4_Witness == phase = "finished" /\ runKey = 1 /\ frames = {} /\ elapsed = totalDuration

\* C5: within one run (runKey unchanged) no step decreases activeIndex.
C5_ActiveIndexMonotone == [][runKey' = runKey => activeIndex' >= activeIndex]_vars

\* two reveal timeouts were due at once and the earlier one has run
C5_Witness ==
  /\ activeIndex = 3
  /\ \E tm \in timeouts : tm.index = 4 /\ tm.due <= now
  /\ \E f \in frames : f.run = runKey

\* C6 as stated: in every state of a run with elapsed = t >= 0, activeIndex
\* is the greatest index whose reveal offset is at most t, and it is the last
\* index exactly when elapsed has reached the last offset.
C6_TracksElapsed ==
  (phase # "idle" /\ elapsed >= 0) =>
     /\ activeIndex = GreatestIndex(elapsed)
     /\ (activeIndex = LastIndex <=> elapsed >= delayMs(LastIndex))

\* C6 amended: while the mounted component is running, once every due reveal
\* timeout has run and the latest frame was delivered at the current instant
\* (elapsed = now - start), activeIndex is the greatest index whose reveal
\* offset is at most elapsed, and that many segments plus one are revealed.
C6_TracksElapsedWhenSettled ==
  (mounted /\ phase = "running" /\ NoDueTimeout /\ elapsed = now - start) =>
     /\ activeIndex = GreatestIndex(elapsed)
     /\ Len(revealedSegments) = GreatestIndex(elapsed) + 1

\* mid-run, between the third and the fourth offsets: three segments revealed
C6_Witness ==
  /\ mounted
  /\ phase = "running"
  /\ NoDueTimeout
  /\ elapsed = now - start
  /\ elapsed > delayMs(2)
  /\ elapsed < delayMs(3)
  /\ activeIndex = 2
  /\ Len(revealedSegments) = 3

\* C7: in every reachable state 0 <= elapsed <= totalDuration and
\* 0 <= progress <= 1.
C7_ElapsedAndProgressInRange ==
  /\ 0 <= elapsed
  /\ elapsed <= totalDuration
  /\ 0 <= progress.num
  /\ progress.num <= progress.den

\* C8: phase = finished exactly when elapsed = totalDuration, and exactly
\* when progress = 1; below totalDuration the phase is never finished.
C8_FinishedIffComplete ==
  /\ phase = "finished" <=> elapsed = totalDuration
  /\ phase = "finished" <=> progress.num = progress.den
  /\ elapsed < totalDuration => phase # "finished"

\* one millisecond short of the total duration, still running
C8_Witness == elapsed = totalDuration - 1 /\ phase = "running" /\ frameTime = start + elapsed

\* the least number of whole seconds covering ms milliseconds
SecondsCovering(ms) ==
  CHOOSE n \in 0..((totalDuration \div 1000) + 1) :
    1000 * n >= ms /\ 1000 * (n - 1) < ms

\* n as two decimal digits
TwoDigits(n) == Digit[(n \div 10) + 1] \o Digit[(n % 10) + 1]

\* C9: for every elapsed in 0..totalDuration, remainingLabel is "00:00" in
\* finished and otherwise "00:" followed by ceil((totalDuration - elapsed) /
\* 1000) as two digits: 0 -> "00:20", 14001 -> "00:06", 15000 -> "00:05",
\* 20000 -> "00:00".
C9_RemainingLabel ==
  (0 <= elapsed /\ elapsed <= totalDuration) =>
     /\ phase = "finished" => remainingLabel = "00:00"
     /\ phase # "finished" =>
          remainingLabel = "00:" \o TwoDigits(SecondsCovering(totalDuration - elapsed))
     /\ elapsed = 0 => remainingLabel = "00:20"
     /\ elapsed = 14001 => remainingLabel = "00:06"
     /\ elapsed = 15000 => remainingLabel = "00:05"
     /\ elapsed = 20000 => remainingLabel = "00:00"

\* the frame sampled 14001 ms into the run
C9_Witness == elapsed = 14001 /\ frameTime = start + 14001 /\ remainingLabel = "00:06"

\* C10: start() and replay() are the same step from any phase: afterwards
\* activeIndex = 0, elapsed = 0, phase = running and runKey is one greater;
\* no other step changes runKey.
C10_StartReplayIdentical ==
  [][ /\ handleStart <=> handleReplay
      /\ (handleStart \/ handleReplay) =>
            /\ activeIndex' = 0
            /\ elapsed' = 0
            /\ phase' = "running"
            /\ runKey' = runKey + 1
      /\ runKey' # runKey => (handleStart \/ handleReplay) ]_vars

\* a restart made while the first run was still running, after a frame
C10_Witness ==
  /\ runKey = 2
  /\ start > MountTime + Slack
  /\ start < MountTime + totalDuration
  /\ frameTime >= MountTime
  /\ FreshStart

\* C11: in every reachable state all pending callbacks belong to the current
\* run, at most segments.length - 1 reveal timeouts and at most one frame
\* callback are pending, and none is pending once the component is torn down.
C11_PendingBelongToCurrentRun ==
  /\ \A tm \in timeouts : tm.run = runKey
  /\ \A f \in frames : f.run = runKey
  /\ Cardinality(timeouts) <= NumSegments - 1
  /\ Cardinality(frames) <= 1
  /\ ~mounted => (timeouts = {} /\ frames = {})

\* a restart made before the first run's earliest timeout was due: all four
\* of its timeouts and its frame request were pending and are gone
C11_Witness ==
  /\ runKey = 2
  /\ start > MountTime + Slack
  /\ start < MountTime + delayMs(1)
  /\ Cardinality(timeouts) = NumSegments - 1
  /\ Cardinality(frames) = 1
  /\ now > start

\* C12: in every reachable state with phase # idle, activeIndex is an index
\* of the script, and revealedSegments is exactly the script's prefix of
\* length activeIndex + 1 (empty only when activeIndex = -1).
C12_RevealedIsPrefix ==
  /\ phase # "idle" => (0 <= activeIndex /\ activeIndex < NumSegments)
  /\ Len(revealedSegments) = activeIndex + 1
  /\ \A k \in 1..(activeIndex + 1) : revealedSegments[k] = storySegments[k]
  /\ revealedSegments = << >> <=> activeIndex = -1

\* four segments revealed while running
C12_Witness ==
  /\ phase = "running"
  /\ activeIndex = 3
  /\ Len(revealedSegments) = 4
  /\ revealedSegments[4].id = "reflection"

\* C13: while running exactly one revealed segment, the one at activeIndex,
\* is marked "Now" and all others "Echo"; in finished no segment is marked
\* "Now" and the script's final segment is displayed, marked "Arrival".
C13_Markers ==
  /\ phase = "running" =>
        /\ activeIndex + 1 \in DOMAIN markers
        /\ \A k \in DOMAIN markers :
              markers[k] = IF k = activeIndex + 1 THEN "Now" ELSE "Echo"
  /\ phase = "finished" =>
        /\ \A k \in DOMAIN markers : markers[k] # "Now"
        /\ Len(markers) = NumSegments
        /\ markers[NumSegments] = "Arrival"

\* C14: through the rendered controls no command is enabled while running:
\* neither button is offered then, and every step that begins a run starts
\* from idle (start) or from finished (replay).
C14_NoCommandWhileRunning ==
  /\ [](phase = "running" => (~StartOffered /\ ~ReplayOffered))
  /\ [](StartOffered => phase = "idle")
  /\ [](ReplayOffered => phase = "finished")
  /\ [][runKey' # runKey => phase \in {"idle", "finished"}]_vars
  /\ [][(runKey' # runKey /\ runKey > 0) => phase = "finished"]_vars

\* a second run, begun by a replay after the first one finished
C14_Witness ==
  /\ runKey = 2
  /\ phase = "running"
  /\ start >= MountTime + totalDuration
  /\ activeIndex = 1

\* a step in which a reveal timeout's callback ran
RevealRan == timeouts' # timeouts /\ effectDeps' = effectDeps /\ mounted' = mounted

\* a step in which the frame callback ran
FrameRan == frameTime' # frameTime

\* C15: a reveal callback changes only activeIndex (elapsed, phase, runKey
\* and the frame request unchanged); a progress update changes only elapsed
\* and, on reaching totalDuration, phase (activeIndex, runKey and the pending
\* timeouts unchanged).
C15_DisjointUpdates ==
  [][ /\ RevealRan => UNCHANGED <<elapsed, phase, runKey, frames, frameTime>>
      /\ FrameRan => UNCHANGED <<activeIndex, runKey, timeouts>>
      /\ (FrameRan /\ phase' # phase) =>
            (phase' = "finished" /\ elapsed' = totalDuration) ]_vars

\* a reveal and a progress update have both run at the instant the reveal
\* was due
C15_Witness ==
  /\ phase = "running"
  /\ activeIndex >= 1
  /\ now = start + delayMs(activeIndex)
  /\ frameTime = now
  /\ elapsed = now - start

\* C16: within one run elapsed never decreases from one progress update to
\* the next, and it becomes 0 again only through start() / replay().
C16_ElapsedMonotone ==
  [][ /\ (FrameRan /\ runKey' = runKey /\ elapsed = nextElapsed(frameTime, start))
            => elapsed' >= elapsed
      /\ (elapsed' = 0 /\ elapsed # 0) => runKey' # runKey ]_vars

\* C17 as stated: whenever phase is idle or finished no reveal timeout and no
\* frame callback is pending, and activeIndex does not change until the next
\* start / replay.
C17_NothingPendingWhenNotRunning ==
  /\ [](phase \in {"idle", "finished"} => (timeouts = {} /\ frames = {}))
  /\ [][(phase \in {"idle", "finished"} /\ runKey' = runKey)
          => activeIndex' = activeIndex]_vars

\* the effect has been flushed for the current [phase, runKey]
EffectFlushed == effectDeps = <<phase, runKey>>

\* C17 amended: no frame callback is pending whenever phase is idle or
\* finished; no reveal timeout is pending in idle, nor in finished once the
\* effect cleanup that follows the phase change has run, and from then on
\* activeIndex does not change until the next start / replay.
C17_NothingPendingOnceFlushed ==
  /\ [](phase \in {"idle", "finished"} => frames = {})
  /\ []((phase \in {"idle", "finished"} /\ EffectFlushed) => timeouts = {})
  /\ [][(phase \in {"idle", "finished"} /\ EffectFlushed /\ runKey' = runKey)
          => activeIndex' = activeIndex]_vars

\* finished before the last timeout ran, and the cleanup has cancelled it
C17_Witness ==
  /\ phase = "finished"
  /\ EffectFlushed
  /\ mounted
  /\ activeIndex = LastIndex - 1
  /\ timeouts = {}
  /\ now >= start + totalDuration

\* C18: phase moves only idle -> running, running -> finished, finished ->
\* running (and running -> running on a restart); idle is never re-entered,
\* and phase = idle exactly when runKey = 0 and activeIndex = -1.
C18_PhaseTransitions ==
  /\ [][ \/ phase' = phase
         \/ phase = "idle" /\ phase' = "running"
         \/ phase = "running" /\ phase' = "finished"
         \/ phase = "finished" /\ phase' = "running" ]_vars
  /\ [][phase # "idle" => phase' # "idle"]_vars
  /\ [](phase = "idle" <=> (runKey = 0 /\ activeIndex = -1))
  /\ [](phase = "idle" <=> runKey = 0)
  /\ [](phase = "idle" <=> activeIndex = -1)

\* a run restarted while running, which then finished
C18_Witness ==
  /\ phase = "finished"
  /\ runKey = 2
  /\ start < MountTime + totalDuration
  /\ start > MountTime + Slack

====
